---------------------------- MODULE Spec2Model ----------------------------
(***************************************************************************)
(* StudySnap: the quiz session controller (src/App.tsx), the quiz card's   *)
(* hint logic (src/components/QuizCard.tsx), the camera input              *)
(* (src/components/ProgressBar.tsx, second half), the generation client's  *)
(* results (src/services/geminiService.ts) and the persistence store       *)
(* (src/services/storage.ts).                                              *)
(*                                                                         *)
(* Three specifications:                                                   *)
(*   Spec       the running application: user actions and the completions  *)
(*              of the asynchronous calls, in every order;                 *)
(*   StoreSpec  one call of a store function with arbitrary arguments on   *)
(*              arbitrary stored content;                                  *)
(*   ChainSpec  any sequence of store calls from an empty localStorage.    *)
(*                                                                         *)
(* React is modelled as version 18+: the setState calls of one handler or  *)
(* one promise continuation are batched, then the tree renders once and    *)
(* the effects whose dependencies changed run.  A handler closes over the  *)
(* state of the render that created it.                                    *)
(***************************************************************************)
EXTENDS Integers, Sequences, FiniteSets, Bags, TLC

\* ------------------------------------------------------------------ bounds
\* Image submissions (file picks) in one run; also the largest set id.
MaxPicks == 2
\* Items the remote model returns for one image (0 is the empty quiz).
MaxItems == 2
\* Remote hint calls issued in one run.
MaxHintCalls == 2

\* --------------------------------------------------------------- constants
\* QuizCard.tsx:26  if (nextLevel > 3) return;
MaxHintLevel == 3

\* Texts the remote model can answer a hint request with (all non-empty).
RemoteTexts == {"hintA", "hintB"}
\* geminiService.ts:153  response.text || "..."  (the remote text is empty)
FallbackEmpty == "FALLBACK-think-it-over"
\* geminiService.ts:156  the remote call threw
FallbackFailed == "FALLBACK-hint-failed"
HintTexts == RemoteTexts \cup {FallbackEmpty, FallbackFailed}

\* A hole or an undefined slot of a JavaScript array, and JSON's null.
Undefined == "undefined"
Null == "null"

\* types.ts:16-22
AppStates == {"IDLE", "PROCESSING", "QUIZ_ACTIVE", "COMPLETED", "ERROR"}

\* useState<QuizSet | null>(null): the null current set.
NullSet == [id |-> 0, items |-> <<>>]
\* useState<string | null>(null): the null error.
NullError == "<null>"

\* Error messages of the generation flow.
MsgNoText == "No response text generated."
MsgNoItems == "no-questions-generated"
MsgDefault == "generic-error"
MsgRemote == "remote error"

\* ------------------------------------------------------------ data helpers
Max(a, b) == IF a >= b THEN a ELSE b

\* A JavaScript truthiness test of a hint slot: texts are non-empty strings.
Truthy(h) == h \notin {Undefined, Null}

\* arr[k] for a 0-based k: undefined beyond the end.
HintAt(hints, k) == IF k + 1 <= Len(hints) THEN hints[k + 1] ELSE Undefined

\* const newHints = [...hints]; newHints[k] = text   (0-based k; the slots
\* between the old end and k become holes, read back as undefined).
SetHintAt(hints, k, text) ==
    [i \in 1..Max(Len(hints), k + 1) |->
        IF i = k + 1 THEN text
        ELSE IF i <= Len(hints) THEN hints[i] ELSE Undefined]

\* JSON.stringify then JSON.parse of one item: undefined slots and holes of
\* generatedHints come back as null; everything else is kept.
JSONItem(item) ==
    [item EXCEPT !.generatedHints =
        [i \in 1..Len(item.generatedHints) |->
            IF item.generatedHints[i] = Undefined THEN Null
            ELSE item.generatedHints[i]]]

JSONSet(set) ==
    [set EXCEPT !.items = [i \in 1..Len(set.items) |-> JSONItem(set.items[i])]]

\* JSON.parse(JSON.stringify(history))
JSONRoundTrip(history) == [i \in 1..Len(history) |-> JSONSet(history[i])]

\* Array.prototype.findIndex for "element.id === id": 0-based, -1 if none.
FindIndexById(seq, id) ==
    IF \E i \in 1..Len(seq) : seq[i].id = id
    THEN (CHOOSE i \in 1..Len(seq) :
              /\ seq[i].id = id
              /\ \A j \in 1..(i - 1) : seq[j].id # id) - 1
    ELSE -1

\* Array.prototype.filter(q => q.id !== id)
FilterOutId(seq, id) == SelectSeq(seq, LAMBDA q : q.id # id)

Ids(seq) == {seq[i].id : i \in 1..Len(seq)}

\* ------------------------------------------------------- persistence store
\* localStorage[STORAGE_KEY]: absent; or a text JSON.parse rejects; or the
\* JSON text of an array, held as the value JSON.parse gives for it; or a
\* JSON text that parses to something that is no array.
NonArrayKinds == {"null", "object", "number", "string"}
AbsentStorage == [kind |-> "absent", val |-> <<>>]
ArrayStorage(hist) == [kind |-> "array", val |-> JSONRoundTrip(hist)]

\* storage.ts:17-25  absent: []; JSON.parse throws: caught, []; otherwise
\* whatever JSON.parse returns (a non-array value is returned as it is).
LoadHistory(st) ==
    IF st.kind \in {"absent", "unparsable"} THEN <<>>
    ELSE IF st.kind = "array" THEN st.val
    ELSE st

\* storage.ts:8, 28, 35  history.findIndex / .filter on a value that is no
\* array throws a TypeError, which no store function catches.
StoreThrows(st) == st.kind \in NonArrayKinds

\* Mutant of SaveQuizSet: a new set is pushed to the end (push for unshift).
SaveQuizSet_Append(st, quizSet) ==
    IF StoreThrows(st) THEN st
    ELSE LET hist == LoadHistory(st)
             existingIndex == FindIndexById(hist, quizSet.id)
         IN  IF existingIndex >= 0
             THEN ArrayStorage([hist EXCEPT ![existingIndex + 1] = quizSet])
             ELSE ArrayStorage(hist \o <<quizSet>>)

\* Mutant of SaveQuizSet: a stored set is removed and the new one prepended.
SaveQuizSet_MoveToTop(st, quizSet) ==
    IF StoreThrows(st) THEN st
    ELSE ArrayStorage(<<quizSet>> \o FilterOutId(LoadHistory(st), quizSet.id))

\* Mutant of SaveQuizSet: the set is prepended whether its id is stored or not.
SaveQuizSet_AlwaysPrepend(st, quizSet) ==
    IF StoreThrows(st) THEN st
    ELSE ArrayStorage(<<quizSet>> \o LoadHistory(st))

\* storage.ts:5-15; the value is localStorage after the call.
SaveQuizSet(st, quizSet) ==
    IF StoreThrows(st) THEN st
    ELSE LET hist == LoadHistory(st)
             existingIndex == FindIndexById(hist, quizSet.id)
         IN  IF existingIndex >= 0
             THEN ArrayStorage([hist EXCEPT ![existingIndex + 1] = quizSet])
             ELSE ArrayStorage(<<quizSet>> \o hist)

\* storage.ts:27-31; the returned sequence.
DeleteQuizSetResult(st, id) ==
    IF StoreThrows(st) THEN <<>> ELSE FilterOutId(LoadHistory(st), id)

\* Mutant of DeleteQuizSet: the filtered history is returned, not persisted.
DeleteQuizSet_NoPersist(st, id) == st

\* storage.ts:27-31; localStorage after the call.
DeleteQuizSet(st, id) ==
    IF StoreThrows(st) THEN st ELSE ArrayStorage(DeleteQuizSetResult(st, id))

\* Mutant of UpdateQuizSetItem: the item found is written at position 0.
UpdateQuizSetItem_FirstItem(st, setId, updatedItem) ==
    IF StoreThrows(st) THEN st
    ELSE LET hist == LoadHistory(st)
             setIndex == FindIndexById(hist, setId)
         IN  IF setIndex >= 0
                /\ FindIndexById(hist[setIndex + 1].items, updatedItem.id) >= 0
             THEN ArrayStorage([hist EXCEPT ![setIndex + 1].items[1] = updatedItem])
             ELSE st

\* Mutant of UpdateQuizSetItem: an item the set does not hold is appended.
UpdateQuizSetItem_Upsert(st, setId, updatedItem) ==
    IF StoreThrows(st) THEN st
    ELSE LET hist == LoadHistory(st)
             setIndex == FindIndexById(hist, setId)
         IN  IF setIndex >= 0
             THEN LET itemIndex ==
                          FindIndexById(hist[setIndex + 1].items, updatedItem.id)
                  IN  IF itemIndex >= 0
                      THEN ArrayStorage(
                             [hist EXCEPT ![setIndex + 1].items[itemIndex + 1] =
                                              updatedItem])
                      ELSE ArrayStorage(
                             [hist EXCEPT ![setIndex + 1].items =
                                              Append(@, updatedItem)])
             ELSE st

\* storage.ts:33-43; localStorage after the call (written only on a hit).
UpdateQuizSetItem(st, setId, updatedItem) ==
    IF StoreThrows(st) THEN st
    ELSE LET hist == LoadHistory(st)
             setIndex == FindIndexById(hist, setId)
         IN  IF setIndex >= 0
             THEN LET itemIndex ==
                          FindIndexById(hist[setIndex + 1].items, updatedItem.id)
                  IN  IF itemIndex >= 0
                      THEN ArrayStorage(
                             [hist EXCEPT ![setIndex + 1].items[itemIndex + 1] =
                                              updatedItem])
                      ELSE st
             ELSE st

\* ------------------------------------------------------- generation client
\* geminiService.ts:63-67  items of a new set: ids q-<timestamp>-<index>,
\* every hint cache empty.
NewItems(timestamp, n) ==
    [i \in 1..n |-> [id |-> <<timestamp, i - 1>>, generatedHints |-> <<>>]]

\* What the remote model does with one generation request.
GenOutcomes ==
    {[kind |-> "throw", msg |-> m, n |-> 0] : m \in {MsgRemote, ""}}
    \cup {[kind |-> "notext", msg |-> "", n |-> 0]}
    \cup {[kind |-> "items", msg |-> "", n |-> k] : k \in 0..MaxItems}

\* geminiService.ts:9-82  the promise's result: the set (ok) or the error
\* thrown (its message).  Set ids are set-<timestamp>.
GenerateQuizFromImage(outcome, timestamp) ==
    IF outcome.kind = "items"
    THEN [ok |-> TRUE, msg |-> "",
          set |-> [id |-> timestamp, items |-> NewItems(timestamp, outcome.n)]]
    ELSE [ok |-> FALSE, set |-> NullSet,
          msg |-> IF outcome.kind = "notext" THEN MsgNoText ELSE outcome.msg]

\* What the remote model does with one hint request.
HintOutcomes ==
    {[kind |-> "text", text |-> t] : t \in RemoteTexts}
    \cup {[kind |-> "empty", text |-> ""], [kind |-> "throw", text |-> ""]}

\* geminiService.ts:87-158  the string the promise resolves to (it never
\* rejects).
GenerateInteractiveHint(outcome) ==
    IF outcome.kind = "throw" THEN FallbackFailed
    ELSE IF outcome.text = "" THEN FallbackEmpty
    ELSE outcome.text

\* ------------------------------------------------------------------- state
VARIABLES
    appState,              \* App.tsx:10
    currentQuizSet,        \* App.tsx:13
    currentQuestionIndex,  \* App.tsx:14  (0-based)
    history,               \* App.tsx:17  the displayed history
    error,                 \* App.tsx:21
    card,                  \* QuizCard.tsx:13-15  showAnswer, currentHintLevel, loadingHint
    mounted,               \* the React tree is mounted (no render has thrown)
    storage,               \* localStorage[STORAGE_KEY]
    reading,               \* FileReaders started and not yet ended (ProgressBar.tsx:41-46)
    genWait,               \* handleImageSelected runs at the 800 ms delay (App.tsx:34)
    genCall,               \* handleImageSelected runs awaiting the remote call (App.tsx:37)
    pendingHints,          \* handleGetHint runs awaiting the remote call (QuizCard.tsx:39)
    now,                   \* the last timestamp Date.now() gave a generated set
    picks,                 \* images submitted so far
    hintCalls,             \* remote hint calls issued so far
    lastAct,               \* the step taken last
    call                   \* StoreSpec: the store call made last

reactVars == <<appState, currentQuizSet, currentQuestionIndex, history, error,
               card, mounted>>
asyncVars == <<reading, genWait, genCall, pendingHints, now, picks, hintCalls>>
appVars == <<reactVars, asyncVars, lastAct>>
vars == <<reactVars, asyncVars, lastAct, storage, call>>

NoCall == [op |-> "none"]

\* QuizCard.tsx:13-15  the state of a freshly mounted card (also what the
\* effect of lines 18-22 resets it to).
InitCard == [showAnswer |-> FALSE, currentHintLevel |-> 0, loadingHint |-> FALSE]

\* App.tsx:10-21 after the first render and its effect (setHistory(loadHistory())).
Init ==
    /\ appState = "IDLE"
    /\ currentQuizSet = NullSet
    /\ currentQuestionIndex = 0
    /\ history = <<>>
    /\ error = NullError
    /\ card = InitCard
    /\ mounted = TRUE
    /\ storage = AbsentStorage
    /\ reading = 0
    /\ genWait = 0
    /\ genCall = 0
    /\ pendingHints = EmptyBag
    /\ now = 0
    /\ picks = 0
    /\ hintCalls = 0
    /\ lastAct = "Init"
    /\ call = NoCall

\* ------------------------------------------------------- render and effects
\* App.tsx:196,257  the QuizCard is rendered.
CardShown(st, set) == st = "QUIZ_ACTIVE" /\ set # NullSet

\* App.tsx:201 with QuizCard.tsx:22  items[index] is undefined beyond the
\* end, and the card's render reads item.id: the render throws and React
\* unmounts the tree.
RenderThrows(st, set, idx) == CardShown(st, set) /\ idx >= Len(set.items)

\* App.tsx:201  the item the card shows.
ItemAt(set, idx) == set.items[idx + 1]

\* The pending hint requests after the card that issued them unmounted: its
\* state setters no longer do anything.
Detach(pend) ==
    LET dead == {[r EXCEPT !.live = FALSE] : r \in BagToSet(pend)}
    IN  [r \in dead |-> CopiesIn(r, pend) + CopiesIn([r EXCEPT !.live = TRUE], pend)]

\* One batch of state updates (st2 .. pend2 are the values the handler set),
\* the render that follows, and the effects: App.tsx:24-26 reloads the
\* history when appState changed; QuizCard.tsx:18-22 resets the card when
\* the shown item's id changed; a card that leaves the tree loses its state.
\* Once the tree is unmounted the setters do nothing.
Commit(st2, set2, idx2, hist2, err2, card2, pend2) ==
    IF mounted
    THEN LET throws == RenderThrows(st2, set2, idx2)
             shown == CardShown(st2, set2) /\ ~throws
             was == CardShown(appState, currentQuizSet)
         IN  /\ appState' = st2
             /\ currentQuizSet' = set2
             /\ currentQuestionIndex' = idx2
             /\ error' = err2
             /\ mounted' = ~throws
             /\ history' = IF st2 # appState /\ ~throws
                           THEN LoadHistory(storage') ELSE hist2
             /\ card' = IF ~shown \/ ~was THEN InitCard
                        ELSE IF ItemAt(set2, idx2).id
                                  # ItemAt(currentQuizSet, currentQuestionIndex).id
                             THEN InitCard
                             ELSE card2
             /\ pendingHints' = IF was /\ ~shown THEN Detach(pend2) ELSE pend2
    ELSE /\ UNCHANGED reactVars
         /\ pendingHints' = pend2

\* ------------------------------------------------------------ user actions
\* ProgressBar.tsx:38-54 (CameraInput): the user picks a file and a
\* FileReader starts.  The input is rendered in the IDLE view only
\* (App.tsx:121, without the disabled prop).
PickFile ==
    /\ mounted
    /\ appState = "IDLE"
    /\ picks < MaxPicks
    /\ picks' = picks + 1
    /\ reading' = reading + 1
    /\ lastAct' = "PickFile"
    /\ UNCHANGED <<reactVars, storage, genWait, genCall, pendingHints, now,
                   hintCalls, call>>

\* App.tsx:56-60
StartQuiz(quizSet, hist2, pend2) ==
    Commit("QUIZ_ACTIVE", quizSet, 0, hist2, error, card, pend2)

\* Mutant of HandleHistorySelect: the first entry is opened, whichever was
\* selected.
HandleHistorySelect_FirstEntry(i) ==
    /\ mounted
    /\ appState = "IDLE"
    /\ i \in 1..Len(history)
    /\ storage' = storage
    /\ StartQuiz(history[1], history, pendingHints)
    /\ lastAct' = "HistorySelect"
    /\ UNCHANGED <<reading, genWait, genCall, now, picks, hintCalls, call>>

\* App.tsx:62-64, from the list of App.tsx:133-137
HandleHistorySelect(i) ==
    /\ mounted
    /\ appState = "IDLE"
    /\ i \in 1..Len(history)
    /\ storage' = storage
    /\ StartQuiz(history[i], history, pendingHints)
    /\ lastAct' = "HistorySelect"
    /\ UNCHANGED <<reading, genWait, genCall, now, picks, hintCalls, call>>

\* Mutant of HandleDeleteHistory: the current set is cleared when it is the
\* set deleted.
HandleDeleteHistory_ClearsCurrent(i) ==
    /\ mounted
    /\ appState = "IDLE"
    /\ i \in 1..Len(history)
    /\ storage' = DeleteQuizSet(storage, history[i].id)
    /\ Commit(appState,
              IF currentQuizSet.id = history[i].id THEN NullSet ELSE currentQuizSet,
              currentQuestionIndex,
              DeleteQuizSetResult(storage, history[i].id), error, card, pendingHints)
    /\ lastAct' = "DeleteHistory"
    /\ UNCHANGED <<reading, genWait, genCall, now, picks, hintCalls, call>>

\* App.tsx:66-70, from the button of App.tsx:150-152
HandleDeleteHistory(i) ==
    /\ mounted
    /\ appState = "IDLE"
    /\ i \in 1..Len(history)
    /\ storage' = DeleteQuizSet(storage, history[i].id)
    /\ Commit(appState, currentQuizSet, currentQuestionIndex,
              DeleteQuizSetResult(storage, history[i].id), error, card, pendingHints)
    /\ lastAct' = "DeleteHistory"
    /\ UNCHANGED <<reading, genWait, genCall, now, picks, hintCalls, call>>

\* QuizCard.tsx:151-153  the "show answer" button
ShowAnswer ==
    /\ mounted
    /\ CardShown(appState, currentQuizSet)
    /\ ~card.showAnswer
    /\ card' = [card EXCEPT !.showAnswer = TRUE]
    /\ lastAct' = "ShowAnswer"
    /\ UNCHANGED <<appState, currentQuizSet, currentQuestionIndex, history, error,
                   mounted, storage, asyncVars, call>>

\* QuizCard.tsx:141-143  the hint button is rendered and enabled.
HintButtonEnabled ==
    /\ mounted
    /\ CardShown(appState, currentQuizSet)
    /\ ~card.showAnswer
    /\ ~card.loadingHint
    /\ card.currentHintLevel < MaxHintLevel

\* Mutant of HintIsCached: the cache is read at index nextLevel.
HintIsCached_OffByOne(item, nextLevel) == Truthy(HintAt(item.generatedHints, nextLevel))

\* QuizCard.tsx:30-32  the cache holds the hint of the next level.
HintIsCached(item, nextLevel) == Truthy(HintAt(item.generatedHints, nextLevel - 1))

\* QuizCard.tsx:24-35  handleGetHint, the hint is cached
HintFromCache ==
    /\ HintButtonEnabled
    /\ LET item == ItemAt(currentQuizSet, currentQuestionIndex)
           nextLevel == card.currentHintLevel + 1
       IN  /\ nextLevel <= MaxHintLevel
           /\ HintIsCached(item, nextLevel)
           /\ card' = [card EXCEPT !.currentHintLevel = nextLevel]
    /\ lastAct' = "HintFromCache"
    /\ UNCHANGED <<appState, currentQuizSet, currentQuestionIndex, history, error,
                   mounted, storage, asyncVars, call>>

\* QuizCard.tsx:24-39  handleGetHint up to the await: the closure keeps the
\* item and onUpdateItem of this render, and so this render's currentQuizSet
\* and currentQuestionIndex (App.tsx:82-93).
HintRequest ==
    /\ HintButtonEnabled
    /\ hintCalls < MaxHintCalls
    /\ LET item == ItemAt(currentQuizSet, currentQuestionIndex)
           nextLevel == card.currentHintLevel + 1
       IN  /\ nextLevel <= MaxHintLevel
           /\ ~HintIsCached(item, nextLevel)
           /\ pendingHints' = pendingHints (+)
                SetToBag({[set |-> currentQuizSet, idx |-> currentQuestionIndex,
                           level |-> nextLevel, live |-> TRUE]})
    /\ card' = [card EXCEPT !.loadingHint = TRUE]
    /\ hintCalls' = hintCalls + 1
    /\ lastAct' = "HintRequest"
    /\ UNCHANGED <<appState, currentQuizSet, currentQuestionIndex, history, error,
                   mounted, storage, reading, genWait, genCall, now, picks, call>>

\* Mutant of HandleNextQuestion: the test is index <= length - 1.
HandleNextQuestion_OffByOne ==
    /\ mounted
    /\ CardShown(appState, currentQuizSet)
    /\ card.showAnswer
    /\ storage' = storage
    /\ IF currentQuestionIndex <= Len(currentQuizSet.items) - 1
       THEN Commit(appState, currentQuizSet, currentQuestionIndex + 1, history,
                   error, card, pendingHints)
       ELSE Commit("COMPLETED", currentQuizSet, currentQuestionIndex, history,
                   error, card, pendingHints)
    /\ lastAct' = "NextQuestion"
    /\ UNCHANGED <<reading, genWait, genCall, now, picks, hintCalls, call>>

\* App.tsx:72-79, from the button of QuizCard.tsx:159-161
HandleNextQuestion ==
    /\ mounted
    /\ CardShown(appState, currentQuizSet)
    /\ card.showAnswer
    /\ storage' = storage
    /\ IF currentQuestionIndex < Len(currentQuizSet.items) - 1
       THEN Commit(appState, currentQuizSet, currentQuestionIndex + 1, history,
                   error, card, pendingHints)
       ELSE Commit("COMPLETED", currentQuizSet, currentQuestionIndex, history,
                   error, card, pendingHints)
    /\ lastAct' = "NextQuestion"
    /\ UNCHANGED <<reading, genWait, genCall, now, picks, hintCalls, call>>

\* Mutant of ResetApp: the question index is not set back to 0.
ResetApp_KeepsIndex ==
    /\ mounted
    /\ appState \in {"QUIZ_ACTIVE", "COMPLETED", "ERROR"}
    /\ storage' = storage
    /\ Commit("IDLE", NullSet, currentQuestionIndex, history, NullError, card,
              pendingHints)
    /\ lastAct' = "ResetApp"
    /\ UNCHANGED <<reading, genWait, genCall, now, picks, hintCalls, call>>

\* App.tsx:95-100, from the buttons of App.tsx:185, 226 and 245
ResetApp ==
    /\ mounted
    /\ appState \in {"QUIZ_ACTIVE", "COMPLETED", "ERROR"}
    /\ storage' = storage
    /\ Commit("IDLE", NullSet, 0, history, NullError, card, pendingHints)
    /\ lastAct' = "ResetApp"
    /\ UNCHANGED <<reading, genWait, genCall, now, picks, hintCalls, call>>

\* ------------------------------------------------- asynchronous completions
\* ProgressBar.tsx:42-45  reader.onloadend calls onImageSelected, whatever
\* the view is by then; App.tsx:28-34  handleImageSelected up to the delay.
FileLoaded ==
    /\ reading > 0
    /\ reading' = reading - 1
    /\ genWait' = genWait + 1
    /\ storage' = storage
    /\ Commit("PROCESSING", currentQuizSet, currentQuestionIndex, history,
              NullError, card, pendingHints)
    /\ lastAct' = "FileLoaded"
    /\ UNCHANGED <<genCall, now, picks, hintCalls, call>>

\* App.tsx:34-37  the delay ends and the remote call is issued
\* (setLoadingMessage only changes the text of the waiting view).
DelayElapsed ==
    /\ genWait > 0
    /\ genWait' = genWait - 1
    /\ genCall' = genCall + 1
    /\ lastAct' = "DelayElapsed"
    /\ UNCHANGED <<reactVars, storage, reading, pendingHints, now, picks,
                   hintCalls, call>>

\* Mutant of GenerationDone: the new set is shown but not saved.
GenerationDone_NoSave(outcome) ==
    /\ genCall > 0
    /\ genCall' = genCall - 1
    /\ LET res == GenerateQuizFromImage(outcome, now + 1)
       IN  IF res.ok /\ Len(res.set.items) > 0
           THEN /\ now' = now + 1
                /\ storage' = storage
                /\ StartQuiz(res.set, LoadHistory(storage'), pendingHints)
           ELSE /\ now' = now
                /\ storage' = storage
                /\ Commit("ERROR", currentQuizSet, currentQuestionIndex, history,
                          IF res.ok THEN MsgNoItems
                          ELSE IF res.msg = "" THEN MsgDefault ELSE res.msg,
                          card, pendingHints)
    /\ lastAct' = "GenerationDone"
    /\ UNCHANGED <<reading, genWait, picks, hintCalls, call>>

\* Mutant of GenerationDone: a result without items is not rejected.
GenerationDone_AcceptsEmpty(outcome) ==
    /\ genCall > 0
    /\ genCall' = genCall - 1
    /\ LET res == GenerateQuizFromImage(outcome, now + 1)
       IN  IF res.ok
           THEN /\ now' = now + 1
                /\ storage' = SaveQuizSet(storage, res.set)
                /\ StartQuiz(res.set, LoadHistory(storage'), pendingHints)
           ELSE /\ now' = now
                /\ storage' = storage
                /\ Commit("ERROR", currentQuizSet, currentQuestionIndex, history,
                          IF res.msg = "" THEN MsgDefault ELSE res.msg,
                          card, pendingHints)
    /\ lastAct' = "GenerationDone"
    /\ UNCHANGED <<reading, genWait, picks, hintCalls, call>>

\* App.tsx:37-53  the remote call ends.  Generated sets get distinct
\* timestamps: two generations do not complete in the same millisecond.
GenerationDone(outcome) ==
    /\ genCall > 0
    /\ genCall' = genCall - 1
    /\ LET res == GenerateQuizFromImage(outcome, now + 1)
       IN  IF res.ok /\ Len(res.set.items) > 0
           THEN /\ now' = now + 1
                /\ storage' = SaveQuizSet(storage, res.set)
                /\ StartQuiz(res.set, LoadHistory(storage'), pendingHints)
           ELSE /\ now' = now
                /\ storage' = storage
                /\ Commit("ERROR", currentQuizSet, currentQuestionIndex, history,
                          IF res.ok THEN MsgNoItems
                          ELSE IF res.msg = "" THEN MsgDefault ELSE res.msg,
                          card, pendingHints)
    /\ lastAct' = "GenerationDone"
    /\ UNCHANGED <<reading, genWait, picks, hintCalls, call>>

\* QuizCard.tsx:42-45  the item of the request's render with the new hint.
UpdatedItem(r, hintText) ==
    LET item == ItemAt(r.set, r.idx)
    IN  [item EXCEPT !.generatedHints =
            SetHintAt(item.generatedHints, r.level - 1, hintText)]

\* Mutant of UpdatedSet: the item is written at the index shown when the
\* call ends, not at the index of the request's render.
UpdatedSet_AtShownIndex(r, updatedItem) ==
    IF currentQuestionIndex + 1 <= Len(r.set.items)
    THEN [r.set EXCEPT !.items[currentQuestionIndex + 1] = updatedItem]
    ELSE r.set

\* App.tsx:86-88  the set of the request's render with the item replaced at
\* that render's index.
UpdatedSet(r, updatedItem) == [r.set EXCEPT !.items[r.idx + 1] = updatedItem]

\* QuizCard.tsx:39-54 with App.tsx:82-93  the remote hint call of request r
\* ends: onUpdateItem (the closure of the request's render) sets the current
\* set and persists the item; the card that issued the request, if still in
\* the tree, shows the level and stops waiting.
HintDone(r, outcome) ==
    /\ BagIn(r, pendingHints)
    /\ LET hintText == GenerateInteractiveHint(outcome)
           updatedItem == UpdatedItem(r, hintText)
       IN  /\ storage' = UpdateQuizSetItem(storage, r.set.id, updatedItem)
           /\ Commit(appState, UpdatedSet(r, updatedItem), currentQuestionIndex,
                     history, error,
                     IF r.live
                     THEN [card EXCEPT !.currentHintLevel = r.level,
                                       !.loadingHint = FALSE]
                     ELSE card,
                     pendingHints (-) SetToBag({r}))
    /\ lastAct' = "HintDone"
    /\ UNCHANGED <<reading, genWait, genCall, now, picks, hintCalls, call>>

Next ==
    \/ PickFile
    \/ \E i \in 1..MaxPicks : HandleHistorySelect(i)
    \/ \E i \in 1..MaxPicks : HandleDeleteHistory(i)
    \/ ShowAnswer
    \/ HintFromCache
    \/ HintRequest
    \/ HandleNextQuestion
    \/ ResetApp
    \/ FileLoaded
    \/ DelayElapsed
    \/ \E o \in GenOutcomes : GenerationDone(o)
    \/ \E r \in BagToSet(pendingHints), o \in HintOutcomes : HintDone(r, o)

Spec == Init /\ [][Next]_vars

\* ---------------------------------------------- the store called directly
\* Arguments and stored contents the store functions are applied to: sets
\* with ids 1..MaxPicks and up to MaxItems items, each item with an empty
\* cache or one hint; items to update may also carry a hole.
StoreSetIds == 1..MaxPicks
StoreItemIds == {<<t, k>> : t \in StoreSetIds, k \in 0..(MaxItems - 1)}
ArgSets ==
    UNION {
        {[id |-> t,
          items |-> [i \in 1..n |-> [id |-> <<t, i - 1>>, generatedHints |-> h[i]]]] :
            h \in [1..n -> {<<>>, <<"hintA">>}]} :
        t \in StoreSetIds, n \in 0..MaxItems}
ArgItems ==
    {[id |-> k, generatedHints |-> h] :
        k \in StoreItemIds, h \in {<<>>, <<"hintA">>, <<Undefined, "hintB">>}}

\* The histories saveQuizSet can have built: no id twice.
StoredHistories ==
    {h \in UNION {[1..n -> ArgSets] : n \in 0..MaxPicks} :
        \A i, j \in 1..Len(h) : h[i].id = h[j].id => i = j}

StoredContents ==
    {AbsentStorage, [kind |-> "unparsable", val |-> <<>>]}
    \cup {[kind |-> k, val |-> <<>>] : k \in NonArrayKinds}
    \cup {ArrayStorage(h) : h \in StoredHistories}

\* The store call made last: its arguments, localStorage before it, the
\* value it returned and whether it threw.
CallRec(op, before, set, id, item, ret, raised) ==
    [op |-> op, before |-> before, set |-> set, id |-> id, item |-> item,
     ret |-> ret, raised |-> raised]

NoItem == [id |-> <<0, 0>>, generatedHints |-> <<>>]

StoreInit ==
    /\ appState = "IDLE"
    /\ currentQuizSet = NullSet
    /\ currentQuestionIndex = 0
    /\ history = <<>>
    /\ error = NullError
    /\ card = InitCard
    /\ mounted = TRUE
    /\ storage \in StoredContents
    /\ reading = 0
    /\ genWait = 0
    /\ genCall = 0
    /\ pendingHints = EmptyBag
    /\ now = 0
    /\ picks = 0
    /\ hintCalls = 0
    /\ lastAct = "Init"
    /\ call = NoCall

\* storage.ts:5-15  saveQuizSet(quizSet)
SaveCall(quizSet) ==
    /\ call = NoCall
    /\ storage' = SaveQuizSet(storage, quizSet)
    /\ call' = CallRec("saveQuizSet", storage, quizSet, quizSet.id, NoItem, <<>>,
                       StoreThrows(storage))
    /\ UNCHANGED appVars

\* storage.ts:27-31  deleteQuizSet(id)
DeleteCall(id) ==
    /\ call = NoCall
    /\ storage' = DeleteQuizSet(storage, id)
    /\ call' = CallRec("deleteQuizSet", storage, NullSet, id, NoItem,
                       DeleteQuizSetResult(storage, id), StoreThrows(storage))
    /\ UNCHANGED appVars

\* storage.ts:33-43  updateQuizSetItem(setId, updatedItem)
UpdateCall(setId, updatedItem) ==
    /\ call = NoCall
    /\ storage' = UpdateQuizSetItem(storage, setId, updatedItem)
    /\ call' = CallRec("updateQuizSetItem", storage, NullSet, setId, updatedItem,
                       <<>>, StoreThrows(storage))
    /\ UNCHANGED appVars

\* Mutant of LoadCall: the value read is written back (a normalising load).
LoadCall_WritesBack ==
    /\ call = NoCall
    /\ storage' = ArrayStorage(IF StoreThrows(storage) THEN <<>>
                               ELSE LoadHistory(storage))
    /\ call' = CallRec("loadHistory", storage, NullSet, 0, NoItem,
                       LoadHistory(storage), FALSE)
    /\ UNCHANGED appVars

\* storage.ts:17-25  loadHistory(): getItem and JSON.parse run inside the
\* try, whose catch returns []; nothing is written.
LoadCall ==
    /\ call = NoCall
    /\ storage' = storage
    /\ call' = CallRec("loadHistory", storage, NullSet, 0, NoItem,
                       LoadHistory(storage), FALSE)
    /\ UNCHANGED appVars

StoreNext ==
    \/ \E s \in ArgSets : SaveCall(s)
    \/ \E id \in StoreSetIds : DeleteCall(id)
    \/ \E id \in StoreSetIds, item \in ArgItems : UpdateCall(id, item)
    \/ LoadCall

StoreSpec == StoreInit /\ [][StoreNext]_vars

\* --------------------------------------- store calls in sequence, from empty
\* The call made last, without the content it found.
ChainRec(op, id, found) == [op |-> op, id |-> id, found |-> found]

\* storage.ts:5-15  saveQuizSet(quizSet)
ChainSave(quizSet) ==
    /\ storage' = SaveQuizSet(storage, quizSet)
    /\ call' = ChainRec("saveQuizSet", quizSet.id,
                        FindIndexById(LoadHistory(storage), quizSet.id) >= 0)
    /\ UNCHANGED appVars

\* storage.ts:27-31  deleteQuizSet(id)
ChainDelete(id) ==
    /\ storage' = DeleteQuizSet(storage, id)
    /\ call' = ChainRec("deleteQuizSet", id,
                        FindIndexById(LoadHistory(storage), id) >= 0)
    /\ UNCHANGED appVars

\* storage.ts:33-43  updateQuizSetItem(setId, updatedItem)
ChainUpdate(setId, updatedItem) ==
    /\ storage' = UpdateQuizSetItem(storage, setId, updatedItem)
    /\ call' = ChainRec("updateQuizSetItem", setId,
                        FindIndexById(LoadHistory(storage), setId) >= 0)
    /\ UNCHANGED appVars

ChainNext ==
    \/ \E s \in ArgSets : ChainSave(s)
    \/ \E id \in StoreSetIds : ChainDelete(id)
    \/ \E id \in StoreSetIds, item \in ArgItems : ChainUpdate(id, item)

\* Init is the application's first state: nothing stored under the key.
ChainSpec == Init /\ [][ChainNext]_vars

\* ------------------------------------------------------------------ claims
\* The item with the given id in the set with the given id of a history
\* (NoItem when there is none), and whether there is one.
HasItem(hist, setId, itemId) ==
    \E i \in 1..Len(hist) :
        /\ hist[i].id = setId
        /\ \E j \in 1..Len(hist[i].items) : hist[i].items[j].id = itemId

ItemOf(hist, setId, itemId) ==
    IF HasItem(hist, setId, itemId)
    THEN LET s == hist[FindIndexById(hist, setId) + 1]
         IN  s.items[FindIndexById(s.items, itemId) + 1]
    ELSE NoItem

\* C1: in every reachable state of the session controller, currentQuizSet is
\* non-null if and only if appState is QUIZ_ACTIVE or COMPLETED.
C1_CurrentSetIffActive ==
    mounted =>
        ((currentQuizSet # NullSet) <=> (appState \in {"QUIZ_ACTIVE", "COMPLETED"}))

\* C2: whenever appState is QUIZ_ACTIVE, currentQuestionIndex is a valid
\* index into currentQuizSet.items.
C2_IndexValidWhileActive ==
    appState = "QUIZ_ACTIVE" =>
        /\ currentQuizSet # NullSet
        /\ 0 <= currentQuestionIndex
        /\ currentQuestionIndex < Len(currentQuizSet.items)

\* Every hint text the items of history a hold is held, at the same position
\* of the same item of the same set, by history b, as far as b has that item.
HintsKept(a, b) ==
    \A i \in 1..Len(a) : \A j \in 1..Len(a[i].items) :
        LET old == a[i].items[j]
            new == ItemOf(b, a[i].id, old.id)
        IN  HasItem(b, a[i].id, old.id) =>
                \A k \in 1..Len(old.generatedHints) :
                    Truthy(old.generatedHints[k]) =>
                        HintAt(new.generatedHints, k - 1) = old.generatedHints[k]

\* The current set as a history of one set (none when it is null).
CurrentAsHistory(set) == IF set = NullSet THEN <<>> ELSE <<set>>

\* C3: the hint cache is write-once: no step clears or changes a hint text
\* that a position of an item holds, in the current set or in the persisted
\* history, as long as that item is there.
C3_HintCacheWriteOnce ==
    [][/\ HintsKept(CurrentAsHistory(currentQuizSet), CurrentAsHistory(currentQuizSet'))
       /\ HintsKept(LoadHistory(storage), LoadHistory(storage'))]_vars

\* C4: when the remote call for a hint of level k ends while the item it was
\* requested for is the item at the current index, the step writes the hint
\* text at position k-1 of that item in the current set and in the persisted
\* history, and the two items then have equal generatedHints.
C4_HintWrittenToBoth ==
    [][\A r \in BagToSet(pendingHints), o \in HintOutcomes :
          (/\ HintDone(r, o)
           /\ mounted
           /\ appState = "QUIZ_ACTIVE"
           /\ currentQuizSet.id = r.set.id
           /\ currentQuestionIndex < Len(currentQuizSet.items)
           /\ ItemAt(currentQuizSet, currentQuestionIndex).id = ItemAt(r.set, r.idx).id)
          => LET text == GenerateInteractiveHint(o)
                 itemId == ItemAt(r.set, r.idx).id
                 mem == ItemOf(<<currentQuizSet'>>, r.set.id, itemId)
                 per == ItemOf(LoadHistory(storage'), r.set.id, itemId)
             IN  /\ HasItem(<<currentQuizSet'>>, r.set.id, itemId)
                 /\ HintAt(mem.generatedHints, r.level - 1) = text
                 /\ HasItem(LoadHistory(storage'), r.set.id, itemId)
                 /\ HintAt(per.generatedHints, r.level - 1) = text
                 /\ JSONItem(mem).generatedHints = per.generatedHints]_vars

\* C5: a hint request for level k on an item whose cache position k-1 is set
\* issues no remote call and changes neither the current set nor the
\* persisted history; it only raises the shown hint level to k.  A request
\* that does issue a remote call is for the level after the shown one, whose
\* position is not set.
C5_CachedHintNoRemoteCall ==
    [][(HintFromCache \/ HintRequest) =>
          LET item == ItemAt(currentQuizSet, currentQuestionIndex)
              k == card.currentHintLevel + 1
          IN  /\ currentQuizSet' = currentQuizSet
              /\ storage' = storage
              /\ Truthy(HintAt(item.generatedHints, k - 1)) =>
                    /\ pendingHints' = pendingHints
                    /\ hintCalls' = hintCalls
                    /\ card' = [card EXCEPT !.currentHintLevel = k]
              /\ pendingHints' # pendingHints =>
                    /\ ~Truthy(HintAt(item.generatedHints, k - 1))
                    /\ \E r \in BagToSet(pendingHints') :
                          /\ r.level = k
                          /\ pendingHints' = pendingHints (+) SetToBag({r})]_vars

\* C5 witness: level 2 was served from the cache, level 1 still in place.
C5_Witness ==
    /\ lastAct = "HintFromCache"
    /\ card.currentHintLevel = 2
    /\ Truthy(HintAt(ItemAt(currentQuizSet, currentQuestionIndex).generatedHints, 0))

\* What loadHistory returned before and returns after the store call.
Before == LoadHistory(call.before)
After == LoadHistory(storage)
\* The stored content is a history (or nothing, or text that does not parse).
IsHistory(st) == ~StoreThrows(st)

\* C6: saveQuizSet of a set whose id is not stored prepends it: the history
\* is one longer, the set is at position 0, the old entries follow in order.
C6_SaveNewPrepends ==
    (call.op = "saveQuizSet" /\ IsHistory(call.before) /\ call.id \notin Ids(Before))
    => /\ ~call.raised
       /\ Len(After) = Len(Before) + 1
       /\ After[1] = call.set
       /\ \A i \in 1..Len(Before) : After[i + 1] = Before[i]

C6_Witness ==
    /\ call.op = "saveQuizSet"
    /\ IsHistory(call.before)
    /\ call.id \notin Ids(Before)
    /\ Len(Before) >= 1
    /\ Len(After) = Len(Before) + 1

\* C7: saveQuizSet of a set whose id is stored replaces that entry in place:
\* same length, the new set where the old entry was, the others unchanged.
C7_SaveExistingReplacesInPlace ==
    (call.op = "saveQuizSet" /\ IsHistory(call.before) /\ call.id \in Ids(Before))
    => /\ ~call.raised
       /\ Len(After) = Len(Before)
       /\ \A i \in 1..Len(Before) :
             After[i] = IF Before[i].id = call.id THEN call.set ELSE Before[i]

C7_Witness ==
    /\ call.op = "saveQuizSet"
    /\ IsHistory(call.before)
    /\ Len(Before) = 2
    /\ Before[2].id = call.id
    /\ Before[2] # call.set
    /\ After[2] = call.set

\* C8: deleteQuizSet(X) leaves no entry of id X, shortens the history by one
\* if X was stored and by nothing otherwise, keeps the other entries in
\* order, and returns what loadHistory then returns.
C8_DeleteRemovesExactlyX ==
    (call.op = "deleteQuizSet" /\ IsHistory(call.before))
    => /\ ~call.raised
       /\ call.id \notin Ids(After)
       /\ Len(After) = Len(Before) - (IF call.id \in Ids(Before) THEN 1 ELSE 0)
       /\ \A i \in 1..Len(Before) :
             Before[i].id # call.id =>
                After[i - Cardinality({j \in 1..i : Before[j].id = call.id})] = Before[i]
       /\ call.ret = After

C8_Witness ==
    /\ call.op = "deleteQuizSet"
    /\ IsHistory(call.before)
    /\ Len(Before) = 2
    /\ Before[1].id = call.id
    /\ After = <<Before[2]>>

\* C9: updateQuizSetItem(setId, item), the set and the item being stored,
\* replaces exactly that item: every other item of the set, every other set,
\* the order and the length of the history are unchanged.
C9_UpdateReplacesOnlyItem ==
    (/\ call.op = "updateQuizSetItem"
     /\ IsHistory(call.before)
     /\ HasItem(Before, call.id, call.item.id))
    => /\ ~call.raised
       /\ Len(After) = Len(Before)
       /\ \A i \in 1..Len(Before) :
             /\ After[i].id = Before[i].id
             /\ Len(After[i].items) = Len(Before[i].items)
             /\ \A j \in 1..Len(Before[i].items) :
                   After[i].items[j] =
                      IF Before[i].id = call.id /\ Before[i].items[j].id = call.item.id
                      THEN JSONItem(call.item)
                      ELSE Before[i].items[j]

C9_Witness ==
    /\ call.op = "updateQuizSetItem"
    /\ IsHistory(call.before)
    /\ Len(Before) = 2
    /\ Before[2].id = call.id
    /\ Len(Before[2].items) = 2
    /\ Before[2].items[2].id = call.item.id
    /\ Before[2].items[2] # JSONItem(call.item)
    /\ After[2].items[2] = JSONItem(call.item)

\* C10: updateQuizSetItem is a silent no-op when no stored set has the id or
\* the set has no item with the item's id: no error, localStorage unchanged.
C10_UpdateMissIsNoOp ==
    (/\ call.op = "updateQuizSetItem"
     /\ IsHistory(call.before)
     /\ ~HasItem(Before, call.id, call.item.id))
    => /\ ~call.raised
       /\ storage = call.before

C10_Witness ==
    /\ call.op = "updateQuizSetItem"
    /\ IsHistory(call.before)
    /\ ~call.raised
    /\ Len(Before) >= 1
    /\ call.id \in Ids(Before)
    /\ ~HasItem(Before, call.id, call.item.id)
    /\ storage = call.before

\* C11: loadHistory never raises and never writes: it returns the stored
\* sequence when one is stored, and the empty sequence when nothing is stored
\* or the stored text does not parse.
C11_LoadHistoryTotal ==
    call.op = "loadHistory"
    => /\ ~call.raised
       /\ storage = call.before
       /\ call.before.kind = "array" => call.ret = call.before.val
       /\ call.before.kind \in {"absent", "unparsable"} => call.ret = <<>>

\* C11 witness: an unparsable text gave the empty sequence and was left in
\* place.
C11_Witness ==
    /\ call.op = "loadHistory"
    /\ call.before.kind = "unparsable"
    /\ call.ret = <<>>
    /\ storage.kind = "unparsable"

\* The stored content is malformed: text that does not parse, or text that
\* parses to a value that is no sequence of quiz sets.
Malformed(st) == st.kind \in {"unparsable"} \cup NonArrayKinds

\* C12: on malformed stored content saveQuizSet, deleteQuizSet and
\* updateQuizSetItem do not raise and act as on an empty history: save stores
\* the one set, delete stores and returns the empty history, update writes
\* nothing.
C12_MalformedDegradesToEmpty ==
    (call.op \in {"saveQuizSet", "deleteQuizSet", "updateQuizSetItem"}
     /\ Malformed(call.before))
    => /\ ~call.raised
       /\ call.op = "saveQuizSet" => storage = SaveQuizSet(AbsentStorage, call.set)
       /\ call.op = "deleteQuizSet" =>
             /\ storage = DeleteQuizSet(AbsentStorage, call.id)
             /\ call.ret = <<>>
       /\ call.op = "updateQuizSetItem" => storage = call.before

\* C13: from an empty localStorage, after any sequence of saveQuizSet,
\* deleteQuizSet and updateQuizSetItem calls the stored history holds no id
\* twice.
C13_StoredIdsUnique ==
    /\ IsHistory(storage)
    /\ \A i, j \in 1..Len(After) : After[i].id = After[j].id => i = j

\* C13 witness: two sets are stored and the last call saved, in place, a set
\* whose id was stored already.
C13_Witness ==
    /\ call.op = "saveQuizSet"
    /\ call.found
    /\ Len(After) = 2
    /\ After[2].id = call.id

\* C14: advancing in QUIZ_ACTIVE raises the index by exactly one and stays
\* in QUIZ_ACTIVE when the item is not the last one, and at the last item
\* goes to COMPLETED with the set and the index unchanged; as long as the
\* same set stays current in QUIZ_ACTIVE or COMPLETED, no step lowers the
\* index, skips a value or takes it back to 0.
C14_AdvanceByOne ==
    [][/\ HandleNextQuestion =>
             IF currentQuestionIndex < Len(currentQuizSet.items) - 1
             THEN /\ currentQuestionIndex' = currentQuestionIndex + 1
                  /\ appState' = "QUIZ_ACTIVE"
                  /\ currentQuizSet' = currentQuizSet
             ELSE /\ appState' = "COMPLETED"
                  /\ currentQuizSet' = currentQuizSet
                  /\ currentQuestionIndex' = currentQuestionIndex
       /\ (/\ appState \in {"QUIZ_ACTIVE", "COMPLETED"}
           /\ appState' \in {"QUIZ_ACTIVE", "COMPLETED"}
           /\ currentQuizSet # NullSet
           /\ currentQuizSet'.id = currentQuizSet.id)
          => currentQuestionIndex' \in
                {currentQuestionIndex, currentQuestionIndex + 1}]_vars

\* C14 witness: a set of two items was advanced to index 1 and completed.
C14_Witness ==
    /\ lastAct = "NextQuestion"
    /\ mounted
    /\ appState = "COMPLETED"
    /\ currentQuestionIndex = 1
    /\ Len(currentQuizSet.items) = 2

GenerationFails(o) == o.kind # "items" \/ o.n = 0

\* C16: a generation that throws, gives no text or gives no item leads to
\* ERROR with an error message; a step that leaves ERROR is a reset and
\* leads to IDLE.
C16_ErrorOnlyLeftByReset ==
    [][/\ \A o \in GenOutcomes :
             (GenerationDone(o) /\ mounted /\ GenerationFails(o))
             => (appState' = "ERROR" /\ error' # NullError)
       /\ (mounted /\ appState = "ERROR" /\ appState' # "ERROR")
          => (lastAct' = "ResetApp" /\ appState' = "IDLE")]_vars

\* No stored set and no current set is without items.
NoEmptySet ==
    /\ IsHistory(storage)
    /\ \A i \in 1..Len(LoadHistory(storage)) : Len(LoadHistory(storage)[i].items) >= 1
    /\ currentQuizSet # NullSet => Len(currentQuizSet.items) >= 1

\* C17: in every reachable state every persisted set and the current set
\* (when not null) has at least one item, and a generation that gives no
\* item leaves the persisted history unchanged.
C17_NoEmptySetEver ==
    /\ []NoEmptySet
    /\ [][\A o \in GenOutcomes :
             (GenerationDone(o) /\ o.kind = "items" /\ o.n = 0)
             => (storage' = storage /\ currentQuizSet' = currentQuizSet)]_vars

\* C17 witness: with a set stored, a generation gave no item and was
\* rejected; the stored history still holds that one set.
C17_Witness ==
    /\ lastAct = "GenerationDone"
    /\ appState = "ERROR"
    /\ error = MsgNoItems
    /\ Len(LoadHistory(storage)) = 1

\* C18: the end of a hint call in QUIZ_ACTIVE, whatever its outcome, leaves
\* appState and error as they are and leaves the card rendered, so that the
\* answer can be shown and the quiz advanced; a call that threw gives the
\* fixed fallback text.
C18_HintNeverBlocks ==
    [][\A r \in BagToSet(pendingHints), o \in HintOutcomes :
          (HintDone(r, o) /\ mounted /\ appState = "QUIZ_ACTIVE")
          => /\ appState' = "QUIZ_ACTIVE"
             /\ error' = error
             /\ o.kind = "throw" => GenerateInteractiveHint(o) = FallbackFailed
             /\ mounted'
             /\ CardShown(appState', currentQuizSet')
             /\ currentQuestionIndex' < Len(currentQuizSet'.items)]_vars

\* The item a pending hint request was issued for.
RequestItem(r) == <<r.set.id, ItemAt(r.set, r.idx).id>>

\* C19: at any time at most one hint request per item is outstanding.
C19_OneHintRequestPerItem ==
    \A r1, r2 \in BagToSet(pendingHints) :
        /\ CopiesIn(r1, pendingHints) = 1
        /\ RequestItem(r1) = RequestItem(r2) => r1 = r2

\* C20: at most one generation is under way at any time; while the state is
\* PROCESSING no image submission, selection, deletion or reset is taken,
\* and the step that leaves PROCESSING is the end of the generation call,
\* to QUIZ_ACTIVE or ERROR.
C20_ProcessingIsExclusive ==
    [][/\ genWait' + genCall' <= 1
       /\ (mounted /\ appState = "PROCESSING")
          => /\ lastAct' \in {"DelayElapsed", "GenerationDone", "HintDone"}
             /\ appState' # "PROCESSING"
                => /\ lastAct' = "GenerationDone"
                   /\ appState' \in {"QUIZ_ACTIVE", "ERROR"}]_vars

\* C21: deleting a history entry changes only the persisted and the
\* displayed history, which both become the persisted history without the
\* entry's id; appState, currentQuizSet and currentQuestionIndex are
\* unchanged, also when the current set has the deleted id.
C21_DeleteKeepsSession ==
    [][\A i \in 1..MaxPicks :
          HandleDeleteHistory(i)
          => LET rest == FilterOutId(LoadHistory(storage), history[i].id)
             IN  /\ LoadHistory(storage') = rest
                 /\ history' = rest
                 /\ history[i].id \notin Ids(history')
                 /\ Len(history') = Len(history) - 1
                 /\ appState' = appState
                 /\ currentQuizSet' = currentQuizSet
                 /\ currentQuestionIndex' = currentQuestionIndex
                 /\ error' = error]_vars

\* C21 witness: the only set ever generated was deleted while it was the
\* current set, and it still is.
C21_Witness ==
    /\ lastAct = "DeleteHistory"
    /\ now = 1
    /\ currentQuizSet.id = 1
    /\ history = <<>>
    /\ LoadHistory(storage) = <<>>

\* C22: selecting a history entry in IDLE leads in one step to QUIZ_ACTIVE
\* with the selected entry as current set and index 0, and leaves the
\* persisted history unchanged.
C22_SelectStartsQuiz ==
    [][\A i \in 1..MaxPicks :
          HandleHistorySelect(i)
          => /\ appState = "IDLE"
             /\ appState' = "QUIZ_ACTIVE"
             /\ currentQuizSet' = history[i]
             /\ currentQuestionIndex' = 0
             /\ mounted'
             /\ storage' = storage]_vars

\* C22 witness: the second of two listed sets was opened.
C22_Witness ==
    /\ lastAct = "HistorySelect"
    /\ appState = "QUIZ_ACTIVE"
    /\ currentQuestionIndex = 0
    /\ Len(history) = 2
    /\ currentQuizSet.id = history[2].id

\* C23: reset from COMPLETED or ERROR leads to IDLE with a null current
\* set, index 0 and a null error, and leaves the persisted history
\* unchanged.
C23_ResetToIdle ==
    [][(ResetApp /\ appState \in {"COMPLETED", "ERROR"})
          => /\ appState' = "IDLE"
             /\ currentQuizSet' = NullSet
             /\ currentQuestionIndex' = 0
             /\ error' = NullError
             /\ storage' = storage]_vars

\* C23 witness: a reset to IDLE when no generation has ever succeeded, that
\* is a reset from ERROR.
C23_Witness ==
    /\ lastAct = "ResetApp"
    /\ appState = "IDLE"
    /\ currentQuizSet = NullSet
    /\ error = NullError
    /\ now = 0
    /\ picks >= 1

\* C24: whenever appState is IDLE the displayed history is the persisted
\* history.
C24_IdleHistoryIsPersisted ==
    (mounted /\ appState = "IDLE") => history = LoadHistory(storage)

\* The items of history b, other than item itemId of set setId, are the
\* items of history a: same sets, same order, same contents.
OnlyItemDiffers(a, b, setId, itemId) ==
    /\ Len(b) = Len(a)
    /\ \A i \in 1..Len(a) :
          /\ b[i].id = a[i].id
          /\ Len(b[i].items) = Len(a[i].items)
          /\ \A j \in 1..Len(a[i].items) :
                /\ b[i].items[j].id = a[i].items[j].id
                /\ (a[i].id # setId \/ a[i].items[j].id # itemId)
                   => b[i].items[j] = a[i].items[j]

\* C25: when the call of a hint request issued for item I of set S ends,
\* the current set becomes S's snapshot with the text in I and in no other
\* item, and the persisted history changes in item I of set S and nowhere
\* else, whatever the current index and the current set are by then.
C25_HintWrittenToItsItem ==
    [][\A r \in BagToSet(pendingHints), o \in HintOutcomes :
          HintDone(r, o)
          => LET text == GenerateInteractiveHint(o)
                 itemId == ItemAt(r.set, r.idx).id
             IN  /\ OnlyItemDiffers(LoadHistory(storage), LoadHistory(storage'),
                                    r.set.id, itemId)
                 /\ HasItem(LoadHistory(storage), r.set.id, itemId)
                    => HintAt(ItemOf(LoadHistory(storage'), r.set.id, itemId)
                                 .generatedHints, r.level - 1) = text
                 /\ mounted
                    => /\ currentQuizSet'.id = r.set.id
                       /\ OnlyItemDiffers(<<r.set>>, <<currentQuizSet'>>,
                                          r.set.id, itemId)
                       /\ HintAt(ItemOf(<<currentQuizSet'>>, r.set.id, itemId)
                                    .generatedHints, r.level - 1) = text]_vars

\* C25 witness: a hint call issued on item 0 of set 1 ended while index 1
\* was shown; item 0 of set 1 holds the text in memory and in storage, the
\* shown item holds none.
C25_Witness ==
    /\ lastAct = "HintDone"
    /\ mounted
    /\ currentQuestionIndex = 1
    /\ currentQuizSet.id = 1
    /\ Len(currentQuizSet.items) = 2
    /\ currentQuizSet.items[2].generatedHints = <<>>
    /\ Truthy(HintAt(currentQuizSet.items[1].generatedHints, 0))
    /\ HasItem(LoadHistory(storage), 1, <<1, 0>>)
    /\ Truthy(HintAt(ItemOf(LoadHistory(storage), 1, <<1, 0>>).generatedHints, 0))
    /\ Len(LoadHistory(storage)) = 2

\* The texts generateInteractiveHint gives when the remote call failed.
FallbackTexts == {FallbackEmpty, FallbackFailed}

\* C26: the fallback text of a failed hint call for level k of the shown
\* item is stored at position k-1 in the current set and in the persisted
\* history, and no remote call is issued for a level of an item whose
\* persisted position holds a fallback text.
C26_FallbackCachedNeverRetried ==
    [][/\ \A r \in BagToSet(pendingHints), o \in HintOutcomes :
             (/\ HintDone(r, o)
              /\ o.kind \in {"throw", "empty"}
              /\ mounted
              /\ HasItem(LoadHistory(storage), r.set.id, ItemAt(r.set, r.idx).id))
             => LET itemId == ItemAt(r.set, r.idx).id
                IN  /\ GenerateInteractiveHint(o) \in FallbackTexts
                    /\ HintAt(ItemOf(<<currentQuizSet'>>, r.set.id, itemId)
                                 .generatedHints, r.level - 1) \in FallbackTexts
                    /\ HintAt(ItemOf(LoadHistory(storage'), r.set.id, itemId)
                                 .generatedHints, r.level - 1) \in FallbackTexts
       /\ HintRequest
          => LET item == ItemAt(currentQuizSet, currentQuestionIndex)
                 stored == ItemOf(LoadHistory(storage), currentQuizSet.id, item.id)
             IN  HintAt(stored.generatedHints, card.currentHintLevel)
                    \notin FallbackTexts]_vars

=============================================================================
